---- MODULE Spec2Model ----
(***************************************************************************)
(* tabbs (src/main.rs): reads comma-separated records from standard input  *)
(* and prints them as a bordered table.                                    *)
(*                                                                         *)
(* A string is a sequence of characters, each character a one-element TLA+ *)
(* string.  "U" stands for one character whose UTF-8 encoding has two      *)
(* bytes (such as e-acute), "ESC" for the escape character 0x1B.           *)
(* Rust indexes from 0, the sequences here from 1.                         *)
(***************************************************************************)
EXTENDS Integers, Sequences, FiniteSets, TLC

VARIABLES pc, args, stdin, stdin_read, input, column_names, header_color,
          cell_color, rows, column_widths, separator, i, row, out, err,
          exit_code, colorize

vars == <<pc, args, stdin, stdin_read, input, column_names, header_color,
          cell_color, rows, column_widths, separator, i, row, out, err,
          exit_code, colorize>>

(***************************************************************************)
(* Bounds of the model.                                                    *)
(***************************************************************************)
\* The texts of a table handed to print_table_to_writer: headers and cells.
MaxCells == 5
\* The rows of such a table.
MaxRows == 2
\* The arguments after the program's name.
MaxArgs == 3
\* The characters of standard input.
MaxStdin == 4

(***************************************************************************)
(* Strings.                                                                *)
(***************************************************************************)
None == <<>>
Some(x) == <<x>>

Max(a, b) == IF a >= b THEN a ELSE b
Min(a, b) == IF a <= b THEN a ELSE b

\* All sequences over S of length at most n.
SeqsUpTo(S, n) == UNION {[1..k -> S] : k \in 0..n}

\* The number of bytes of one character in UTF-8.
ByteLen(c) == IF c = "U" THEN 2 ELSE 1

\* str::len: the length of a string in bytes.
RECURSIVE StrLen(_)
StrLen(s) == IF s = <<>> THEN 0 ELSE ByteLen(Head(s)) + StrLen(Tail(s))

\* str::chars().count(): what the formatter's width counts.
CharCount(s) == Len(s)

\* char::is_whitespace, for the characters of the model.
IsWhitespace(c) == c \in {" ", "\n"}

\* str::repeat for a one-character string.
Repeat(c, n) == [k \in 1..n |-> c]

\* str::split(sep): the pieces between every occurrence of sep; k separators
\* give k + 1 pieces.
RECURSIVE SplitFrom(_, _, _)
SplitFrom(s, sep, cur) ==
    IF s = <<>> THEN <<cur>>
    ELSE IF Head(s) = sep THEN <<cur>> \o SplitFrom(Tail(s), sep, <<>>)
    ELSE SplitFrom(Tail(s), sep, Append(cur, Head(s)))

Split(s, sep) == SplitFrom(s, sep, <<>>)

\* str::split_whitespace: the maximal runs of non-whitespace characters.
RECURSIVE SplitWhitespaceFrom(_, _)
SplitWhitespaceFrom(s, cur) ==
    IF s = <<>> THEN (IF cur = <<>> THEN <<>> ELSE <<cur>>)
    ELSE IF IsWhitespace(Head(s))
         THEN (IF cur = <<>> THEN <<>> ELSE <<cur>>)
              \o SplitWhitespaceFrom(Tail(s), <<>>)
         ELSE SplitWhitespaceFrom(Tail(s), Append(cur, Head(s)))

SplitWhitespace(s) == SplitWhitespaceFrom(s, <<>>)

\* str::trim: without its leading and trailing whitespace.
RECURSIVE TrimStart(_)
TrimStart(s) ==
    IF s # <<>> /\ IsWhitespace(Head(s)) THEN TrimStart(Tail(s)) ELSE s

RECURSIVE TrimEnd(_)
TrimEnd(s) ==
    IF s # <<>> /\ IsWhitespace(s[Len(s)])
    THEN TrimEnd(SubSeq(s, 1, Len(s) - 1)) ELSE s

Trim(s) == TrimEnd(TrimStart(s))

\* [String]::join(sep).
RECURSIVE Join(_, _)
Join(ss, sep) ==
    IF ss = <<>> THEN <<>>
    ELSE IF Len(ss) = 1 THEN ss[1]
    ELSE ss[1] \o sep \o Join(Tail(ss), sep)

(***************************************************************************)
(* The command line.                                                       *)
(***************************************************************************)
Prog == <<"t", "a", "b", "b">>
DashC == <<"-", "c">>
HeaderColorFlag ==
    <<"-", "-", "h", "e", "a", "d", "e", "r", "-", "c", "o", "l", "o", "r">>
CellColorFlag ==
    <<"-", "-", "c", "e", "l", "l", "-", "c", "o", "l", "o", "r">>
Red == <<"r", "e", "d">>
Usage == "Usage: tabb -c \"column1,column2,...\" [--header-color COLOR] [--cell-color COLOR]"

\* UsageError, had the code looked at the number of arguments only.
UsageErrorLenOnly(a) == Len(a) < 3

\* args.len() < 3 || args[1] != "-c"
UsageError(a) == IF Len(a) < 3 THEN TRUE ELSE a[2] # DashC

\* args.iter().position(|arg| arg == flag).and_then(|pos| args.get(pos + 1))
FlagValue(a, flag) ==
    IF \E p \in 1..Len(a) : a[p] = flag
    THEN LET pos == CHOOSE p \in 1..Len(a) :
                        a[p] = flag /\ \A q \in 1..(p - 1) : a[q] # flag
         IN IF pos + 1 <= Len(a) THEN Some(a[pos + 1]) ELSE None
    ELSE None

\* ParseRows, had the code dropped the empty fields of a record.
ParseRowsDropEmpty(text) ==
    LET recs == SplitWhitespace(text)
    IN [k \in 1..Len(recs) |->
          SelectSeq([j \in 1..Len(Split(recs[k], ",")) |->
                        Trim(Split(recs[k], ",")[j])],
                    LAMBDA f : f # <<>>)]

\* input.split_whitespace().map(|line| line.split(',').map(|s| s.trim()))
ParseRows(text) ==
    LET recs == SplitWhitespace(text)
    IN [k \in 1..Len(recs) |->
          LET fields == Split(recs[k], ",")
          IN [j \in 1..Len(fields) |-> Trim(fields[j])]]

(***************************************************************************)
(* The colored crate, as print_table_to_writer uses it.                    *)
(***************************************************************************)
\* Color::from(&str): the SGR code of a color name; a name that is no color
\* falls back to white.
ColorCode(name) == IF name = Red THEN <<"3", "1">> ELSE <<"3", "7">>

Reset == <<"ESC", "[", "0", "m">>

ColorStart(name) == <<"ESC", "[">> \o ColorCode(name) \o <<"m">>

\* text.color(name).to_string(): the text between the color's escape
\* sequence and the reset sequence, or the text as it is when the crate's
\* environment (NO_COLOR, CLICOLOR, no terminal) switches coloring off.
Colored(text, name) ==
    IF colorize THEN ColorStart(name) \o text \o Reset ELSE text

\* color.map_or(text.to_string(), |color| text.color(color).to_string())
MapOrColored(text, color) ==
    IF color = None THEN text ELSE Colored(text, color[1])

(***************************************************************************)
(* print_table_to_writer.                                                  *)
(***************************************************************************)
\* PadLeftAligned, had the formatter counted bytes as str::len does.
PadByBytes(s, width) == s \o Repeat(" ", Max(0, width - StrLen(s)))

\* format!("{:<width$}", s): s, then spaces up to width characters; the
\* formatter counts the characters of s, whatever they are.
PadLeftAligned(s, width) == s \o Repeat(" ", Max(0, width - CharCount(s)))

\* write!(writer, " {:<width$} |", text, width = width)
Segment(text, width) == <<" ">> \o PadLeftAligned(text, width) \o <<" ", "|">>

\* WidenByRow, had the code assigned cell.len() without taking the maximum.
WidenByRowNoMax(widths, cells) ==
    [k \in 1..Len(widths) |->
        IF k <= Len(cells) THEN StrLen(cells[k]) ELSE widths[k]]

\* The inner loop over one row: column_widths[i] = column_widths[i].max(cell.len())
\* for every cell whose index is below column_widths.len().
WidenByRow(widths, cells) ==
    [k \in 1..Len(widths) |->
        IF k <= Len(cells) THEN Max(widths[k], StrLen(cells[k])) ELSE widths[k]]

\* The outer loop over the rows, in order.
RECURSIVE WidenByRows(_, _)
WidenByRows(widths, rs) ==
    IF rs = <<>> THEN widths
    ELSE WidenByRows(WidenByRow(widths, Head(rs)), Tail(rs))

\* column_names.iter().map(|s| s.len()).collect(), then the loops.
ColumnWidths(names, rs) ==
    WidenByRows([k \in 1..Len(names) |-> StrLen(names[k])], rs)

\* column_widths.iter().map(|width| "-".repeat(width + 2)).join("+")
Separator(widths) ==
    Join([k \in 1..Len(widths) |-> Repeat("-", widths[k] + 2)], <<"+">>)

\* BorderLine, had the format string been "+{}" without the closing '+'.
BorderLineNoClosing(sep) == <<"+">> \o sep \o <<"\n">>

\* writeln!(writer, "+{}+", separator)
BorderLine(sep) == <<"+">> \o sep \o <<"+", "\n">>

\* The positions of the program at which the next step writes to the sink.
WritePcs == {"border1", "header_open", "header_cell", "border2", "rows",
             "row_cell"}

(***************************************************************************)
(* Inputs of the model.                                                    *)
(***************************************************************************)
\* Header and cell texts handed to print_table_to_writer directly: of 1
\* byte, and of 3 bytes in 2 characters.
Texts == {<<"a">>, <<"U", "b">>}

\* Option<&str> header colors: none, or a color.
HeaderColors == {None, Some(Red)}

\* Option<&str> cell colors: none, or a name that is no color.
CellColors == {None, Some(<<"x">>)}

\* The row lists of at most m rows holding at most b cells in all.
RECURSIVE RowLists(_, _)
RowLists(b, m) ==
    {<<>>} \cup
    (IF m = 0 THEN {}
     ELSE UNION {{<<r>> \o rest : rest \in RowLists(b - Len(r), m - 1)} :
                    r \in SeqsUpTo(Texts, b)})

\* The arguments after the program's name.
ArgTokens == {DashC, HeaderColorFlag, CellColorFlag, Red,
              <<"U", "b", ",", "c">>}

\* The characters of standard input.
StdinChars == {"a", ",", "\n"}

\* The state on entry of main.
InitMain ==
    /\ pc = "main"
    /\ args \in {<<Prog>> \o a : a \in SeqsUpTo(ArgTokens, MaxArgs)}
    /\ stdin \in SeqsUpTo(StdinChars, MaxStdin)
    /\ colorize \in BOOLEAN
    /\ stdin_read = FALSE
    /\ input = <<>>
    /\ column_names = <<>>
    /\ header_color = None
    /\ cell_color = None
    /\ rows = <<>>
    /\ column_widths = <<>>
    /\ separator = <<>>
    /\ i = 0
    /\ row = 0
    /\ out = <<>>
    /\ err = ""
    /\ exit_code = None

\* The state on entry of print_table_to_writer, called as the unit test
\* calls it: with any columns, rows and colors.
InitRender ==
    /\ pc = "widths"
    /\ args = <<>>
    /\ stdin = <<>>
    /\ colorize \in BOOLEAN
    /\ stdin_read = FALSE
    /\ input = <<>>
    /\ column_names \in SeqsUpTo(Texts, MaxCells)
    /\ header_color \in HeaderColors
    /\ cell_color \in CellColors
    /\ rows \in RowLists(MaxCells - Len(column_names), MaxRows)
    /\ column_widths = <<>>
    /\ separator = <<>>
    /\ i = 0
    /\ row = 0
    /\ out = <<>>
    /\ err = ""
    /\ exit_code = None

(***************************************************************************)
(* main.                                                                   *)
(***************************************************************************)
\* if args.len() < 3 || args[1] != "-c" { eprintln!(usage); process::exit(1) }
Main_Usage ==
    /\ pc = "main"
    /\ UsageError(args)
    /\ err' = Usage
    /\ exit_code' = Some(1)
    /\ pc' = "exited"
    /\ UNCHANGED <<args, stdin, stdin_read, input, column_names, header_color,
                   cell_color, rows, column_widths, separator, i, row, out,
                   colorize>>

\* The column names and the two colors, from the arguments.
Main_ParseArgs ==
    /\ pc = "main"
    /\ ~UsageError(args)
    /\ column_names' = Split(args[3], ",")
    /\ header_color' = FlagValue(args, HeaderColorFlag)
    /\ cell_color' = FlagValue(args, CellColorFlag)
    /\ pc' = "read_stdin"
    /\ UNCHANGED <<args, stdin, stdin_read, input, rows, column_widths,
                   separator, i, row, out, err, exit_code, colorize>>

\* stdin.lock().read_to_string(&mut input): all of standard input.
Main_ReadStdin ==
    /\ pc = "read_stdin"
    /\ stdin_read' = TRUE
    /\ input' = stdin
    /\ pc' = "build_rows"
    /\ UNCHANGED <<args, stdin, column_names, header_color, cell_color, rows,
                   column_widths, separator, i, row, out, err, exit_code,
                   colorize>>

\* The exit status of a Rust program that panicked.
PanicCode == 101

\* .expect("Failed to read input"): a read error panics.
Main_ReadStdinFails ==
    /\ pc = "read_stdin"
    /\ stdin_read' = TRUE
    /\ pc' = "panicked"
    /\ exit_code' = Some(PanicCode)
    /\ UNCHANGED <<args, stdin, input, column_names, header_color, cell_color,
                   rows, column_widths, separator, i, row, out, err, colorize>>

\* The rows, from the input; then the call of print_table_to_writer.
Main_BuildRows ==
    /\ pc = "build_rows"
    /\ rows' = ParseRows(input)
    /\ pc' = "widths"
    /\ UNCHANGED <<args, stdin, stdin_read, input, column_names, header_color,
                   cell_color, column_widths, separator, i, row, out, err,
                   exit_code, colorize>>

\* main returns after print_table_to_writer has.
Main_Exit ==
    /\ pc = "returned"
    /\ exit_code' = Some(0)
    /\ pc' = "exited"
    /\ UNCHANGED <<args, stdin, stdin_read, input, column_names, header_color,
                   cell_color, rows, column_widths, separator, i, row, out,
                   err, colorize>>

(***************************************************************************)
(* print_table_to_writer, one step per statement that writes.              *)
(***************************************************************************)
\* ComputeWidths, had the code measured the texts after coloring them.
ComputeWidthsColored ==
    /\ pc = "widths"
    /\ column_widths' =
          ColumnWidths([k \in 1..Len(column_names) |->
                           MapOrColored(column_names[k], header_color)],
                       [r \in 1..Len(rows) |->
                           [k \in 1..Len(rows[r]) |->
                               MapOrColored(rows[r][k], cell_color)]])
    /\ pc' = "separator"
    /\ UNCHANGED <<args, stdin, stdin_read, input, column_names, header_color,
                   cell_color, rows, separator, i, row, out, err, exit_code,
                   colorize>>

ComputeWidths ==
    /\ pc = "widths"
    /\ column_widths' = ColumnWidths(column_names, rows)
    /\ pc' = "separator"
    /\ UNCHANGED <<args, stdin, stdin_read, input, column_names, header_color,
                   cell_color, rows, separator, i, row, out, err, exit_code,
                   colorize>>

BuildSeparator ==
    /\ pc = "separator"
    /\ separator' = Separator(column_widths)
    /\ pc' = "border1"
    /\ UNCHANGED <<args, stdin, stdin_read, input, column_names, header_color,
                   cell_color, rows, column_widths, i, row, out, err,
                   exit_code, colorize>>

\* A successful write of text to the sink, moving on to position next.
Write(text, next) ==
    /\ out' = out \o text
    /\ pc' = next
    /\ UNCHANGED <<args, stdin, stdin_read, input, column_names, header_color,
                   cell_color, rows, column_widths, separator, err, exit_code,
                   colorize>>

WriteTopBorder ==
    /\ pc = "border1"
    /\ Write(BorderLine(separator), "header_open")
    /\ UNCHANGED <<i, row>>

WriteHeaderOpen ==
    /\ pc = "header_open"
    /\ Write(<<"|">>, "header_cell")
    /\ i' = 1
    /\ UNCHANGED row

WriteHeaderCell ==
    /\ pc = "header_cell"
    /\ i <= Len(column_names)
    /\ Write(Segment(MapOrColored(column_names[i], header_color),
                     column_widths[i]), "header_cell")
    /\ i' = i + 1
    /\ UNCHANGED row

WriteHeaderEnd ==
    /\ pc = "header_cell"
    /\ i > Len(column_names)
    /\ Write(<<"\n">>, "border2")
    /\ UNCHANGED <<i, row>>

WriteHeaderBorder ==
    /\ pc = "border2"
    /\ Write(BorderLine(separator), "rows")
    /\ row' = 1
    /\ UNCHANGED i

WriteRowOpen ==
    /\ pc = "rows"
    /\ row <= Len(rows)
    /\ Write(<<"|">>, "row_cell")
    /\ i' = 1
    /\ UNCHANGED row

WriteRowCell ==
    /\ pc = "row_cell"
    /\ i <= Len(rows[row])
    /\ i <= Len(column_widths)
    /\ Write(Segment(MapOrColored(rows[row][i], cell_color),
                     column_widths[i]), "row_cell")
    /\ i' = i + 1
    /\ UNCHANGED row

\* SkipRowCell, had the code printed the cells beyond the columns unpadded.
SkipRowCellPrinted ==
    /\ pc = "row_cell"
    /\ i <= Len(rows[row])
    /\ i > Len(column_widths)
    /\ Write(Segment(MapOrColored(rows[row][i], cell_color), 0), "row_cell")
    /\ i' = i + 1
    /\ UNCHANGED row

\* if i < column_widths.len() { ... }: a cell beyond the columns is passed over.
SkipRowCell ==
    /\ pc = "row_cell"
    /\ i <= Len(rows[row])
    /\ i > Len(column_widths)
    /\ i' = i + 1
    /\ UNCHANGED <<pc, args, stdin, stdin_read, input, column_names,
                   header_color, cell_color, rows, column_widths, separator,
                   row, out, err, exit_code, colorize>>

\* WriteRowEnd, had the code ended a data line without a line break.
WriteRowEndNoBreak ==
    /\ pc = "row_cell"
    /\ i > Len(rows[row])
    /\ Write(<<>>, "rows")
    /\ row' = row + 1
    /\ UNCHANGED i

WriteRowEnd ==
    /\ pc = "row_cell"
    /\ i > Len(rows[row])
    /\ Write(<<"\n">>, "rows")
    /\ row' = row + 1
    /\ UNCHANGED i

WriteBottomBorder ==
    /\ pc = "rows"
    /\ row > Len(rows)
    /\ Write(BorderLine(separator), "returned")
    /\ UNCHANGED <<i, row>>

\* WriteFails, had the code dropped the result of the first write instead of
\* unwrapping it.
WriteFailsIgnored ==
    /\ pc = "border1"
    /\ pc' = "header_open"
    /\ UNCHANGED <<args, stdin, stdin_read, input, column_names, header_color,
                   cell_color, rows, column_widths, separator, i, row, out,
                   err, exit_code, colorize>>

\* .unwrap() on a write the sink refuses: the panic ends the program, and
\* nothing is written afterwards.
WriteFails ==
    /\ pc \in WritePcs
    /\ ~(pc = "row_cell" /\ i <= Len(rows[row]) /\ i > Len(column_widths))
    /\ pc' = "panicked"
    /\ exit_code' = Some(PanicCode)
    /\ UNCHANGED <<args, stdin, stdin_read, input, column_names, header_color,
                   cell_color, rows, column_widths, separator, i, row, out,
                   err, colorize>>

Render ==
    \/ ComputeWidths
    \/ BuildSeparator
    \/ WriteTopBorder
    \/ WriteHeaderOpen
    \/ WriteHeaderCell
    \/ WriteHeaderEnd
    \/ WriteHeaderBorder
    \/ WriteRowOpen
    \/ WriteRowCell
    \/ SkipRowCell
    \/ WriteRowEnd
    \/ WriteBottomBorder
    \/ WriteFails

Next ==
    \/ Main_Usage
    \/ Main_ParseArgs
    \/ Main_ReadStdin
    \/ Main_ReadStdinFails
    \/ Main_BuildRows
    \/ Main_Exit
    \/ Render

\* The whole program.
Spec == InitMain /\ [][Next]_vars

\* print_table_to_writer on its own.
SpecRender == InitRender /\ [][Render]_vars

(***************************************************************************)
(* What the properties below are stated with.  The texts of the model hold *)
(* no '|', no line break, no space and no escape character, so the lines   *)
(* and segments of the output can be read back from it.                    *)
(***************************************************************************)
SetMax(S) == CHOOSE x \in S : \A y \in S : y <= x

RECURSIVE Flatten(_)
Flatten(ss) == IF ss = <<>> THEN <<>> ELSE Head(ss) \o Flatten(Tail(ss))

RECURSIVE Sum(_)
Sum(ns) == IF ns = <<>> THEN 0 ELSE Head(ns) + Sum(Tail(ns))

\* The k-th smallest element of a set of numbers.
KthOf(S, k) == CHOOSE p \in S : Cardinality({q \in S : q < p}) = k - 1

\* The pieces of s between the occurrences of the character c.
SplitAt(s, c) ==
    LET B == {p \in 1..Len(s) : s[p] = c}
        n == Cardinality(B)
        Pos(k) == IF k = 0 THEN 0 ELSE IF k = n + 1 THEN Len(s) + 1 ELSE KthOf(B, k)
    IN [k \in 1..(n + 1) |-> SubSeq(s, Pos(k - 1) + 1, Pos(k) - 1)]

\* Position p of s lies in an escape sequence (ESC ... m).
InEscape(s, p) ==
    \E e \in 1..p : s[e] = "ESC" /\ \A t \in e..(p - 1) : s[t] # "m"

\* The text without its escape sequences.
StripEscapes(s) ==
    LET K == {p \in 1..Len(s) : ~InEscape(s, p)}
    IN [k \in 1..Cardinality(K) |-> s[KthOf(K, k)]]

\* The lines written so far; the last one is empty when the output ends
\* with a line break.
OutLines == SplitAt(out, "\n")

\* What stands between the bars of a line.
Pieces(line) ==
    LET P == SplitAt(line, "|") IN [j \in 1..(Len(P) - 2) |-> P[j + 1]]

\* The texts of a line's segments, without colors and padding.
LineTexts(line) ==
    LET P == Pieces(line)
    IN [j \in 1..Len(P) |-> Trim(StripEscapes(P[j]))]

NumCols == Len(column_names)

\* The rows that have a cell in column k.
RowsWith(k) == {r \in 1..Len(rows) : k <= Len(rows[r])}

\* The largest byte length among the header of column k and its cells.
RawMax(k) ==
    SetMax({StrLen(column_names[k])} \cup {StrLen(rows[r][k]) : r \in RowsWith(k)})

\* The table as it is to look without colors.
PlainBorder ==
    <<"+">> \o Join([k \in 1..NumCols |-> Repeat("-", RawMax(k) + 2)], <<"+">>)
            \o <<"+">>

PlainSegment(text, k) ==
    <<" ">> \o text \o Repeat(" ", RawMax(k) - Len(text)) \o <<" ", "|">>

PlainLine(texts) ==
    <<"|">> \o Flatten([k \in 1..Min(Len(texts), NumCols) |->
                           PlainSegment(texts[k], k)])

PlainTable ==
    PlainBorder \o <<"\n">> \o PlainLine(column_names) \o <<"\n">>
    \o PlainBorder \o <<"\n">>
    \o Flatten([r \in 1..Len(rows) |-> PlainLine(rows[r]) \o <<"\n">>])
    \o PlainBorder \o <<"\n">>

IsBorder(line) ==
    /\ Len(line) >= 2
    /\ line[1] = "+"
    /\ line[Len(line)] = "+"
    /\ \A p \in 1..Len(line) : line[p] \in {"+", "-"}

IsPrefix(s, t) == Len(s) <= Len(t) /\ s = SubSeq(t, 1, Len(s))

Returned == pc = "returned"

(***************************************************************************)
(* Properties of print_table_to_writer (SpecRender).                       *)
(***************************************************************************)

\* C1: the output is a border line, the header line, a border line, one data
\* line per row in the order of the rows, and a border line: Len(rows) + 4
\* lines, each ended by a line break, the three border lines the same.
C1_LineOrder ==
    Returned =>
        LET L == OutLines
        IN /\ Len(L) = Len(rows) + 5
           /\ L[Len(L)] = <<>>
           /\ IsBorder(L[1])
           /\ L[3] = L[1]
           /\ L[Len(rows) + 4] = L[1]
           /\ L[2][1] = "|"
           /\ LineTexts(L[2]) = column_names
           /\ \A r \in 1..Len(rows) :
                 /\ L[3 + r][1] = "|"
                 /\ IsPrefix(LineTexts(L[3 + r]), rows[r])
                 /\ Len(LineTexts(L[3 + r])) = Min(Len(rows[r]), NumCols)

\* Two rows that differ, so that their order shows, have been printed.
C1_Witness ==
    /\ Returned
    /\ Len(rows) = 2
    /\ NumCols >= 1
    /\ rows[1] # <<>>
    /\ rows[2] # <<>>
    /\ rows[1][1] # rows[2][1]
    /\ Len(OutLines) = 7

\* C2: once computed, column_widths has one entry per column, and entry i is
\* the largest byte length among the header of column i and the cells at
\* index i; cells beyond the columns change nothing.
C2_Widths ==
    pc \in {"separator", "returned"} =>
        /\ Len(column_widths) = NumCols
        /\ \A k \in 1..NumCols :
              /\ column_widths[k] = RawMax(k)
              /\ column_widths[k] >= StrLen(column_names[k])
              /\ \A r \in RowsWith(k) : column_widths[k] >= StrLen(rows[r][k])

\* A cell has widened its column, and a cell beyond the columns is longer
\* than the width of the last column.
C2_Witness ==
    /\ pc = "separator"
    /\ NumCols = 2
    /\ column_widths[1] > StrLen(column_names[1])
    /\ \E r \in 1..Len(rows) :
          /\ Len(rows[r]) > NumCols
          /\ StrLen(rows[r][3]) > column_widths[2]

\* The length of a line of n segments: sum(column_widths[i] + 3) + 1.
LineWidth(n) == Sum([k \in 1..n |-> column_widths[k] + 3]) + 1

\* Without a color, the header line and every data line are made of the
\* segments " text<padding> |" with text and padding column_widths[i]
\* characters long, so a line is as long as LineWidth of its columns.
SegmentsAligned ==
    LET L == OutLines
    IN /\ header_color = None =>
             /\ L[2] = PlainLine(column_names)
             /\ Len(L[2]) = LineWidth(NumCols)
       /\ cell_color = None =>
             \A r \in 1..Len(rows) :
                /\ L[3 + r] = PlainLine(rows[r])
                /\ Len(L[3 + r]) = LineWidth(Min(Len(rows[r]), NumCols))

\* Without a color, the header line is as long as the border line, and so
\* is the data line of every row with a cell for each column.
AsLongAsBorder ==
    LET L == OutLines
    IN /\ header_color = None => Len(L[2]) = Len(L[1])
       /\ cell_color = None =>
             \A r \in 1..Len(rows) :
                Len(rows[r]) >= NumCols => Len(L[3 + r]) = Len(L[1])

\* C3 as the spec states it: the segments are aligned, and consequently the
\* header line and the full data lines are as long as the border line.
C3_AlignmentAnyColumns ==
    Returned => (SegmentsAligned /\ AsLongAsBorder)

\* C3, amended: the segments are aligned, and with at least one column the
\* header line and the full data lines are as long as the border line.
C3_Alignment ==
    Returned => (SegmentsAligned /\ (NumCols >= 1 => AsLongAsBorder))

\* An uncolored table with two columns, a full row and a short one, and a
\* text of fewer characters than bytes that needed padding.
C3_Witness ==
    /\ Returned
    /\ header_color = None
    /\ cell_color = None
    /\ NumCols = 2
    /\ \E r \in 1..Len(rows) : Len(rows[r]) = 2
    /\ \E r \in 1..Len(rows) : Len(rows[r]) = 1
    /\ column_names[1] = <<"a">>
    /\ \E r \in 1..Len(rows) : Len(rows[r]) >= 1 /\ rows[r][1] = <<"U", "b">>

\* C4: with colors, the output without its escape sequences is the output
\* of the uncolored table: the padding does not count the escape sequences.
C4_PaddingIgnoresEscapes ==
    Returned => StripEscapes(out) = PlainTable

\* C5: the data line of a row holds its first Min(Len(row), columns) cells,
\* in order, and nothing for a missing cell; the header line holds every
\* column.
C5_DroppedCells ==
    Returned =>
        LET L == OutLines
        IN /\ Len(Pieces(L[2])) = NumCols
           /\ \A r \in 1..Len(rows) :
                 LET n == Min(Len(rows[r]), NumCols)
                 IN /\ Len(Pieces(L[3 + r])) = n
                    /\ LineTexts(L[3 + r]) = SubSeq(rows[r], 1, n)

\* A row longer than the columns and a row shorter than them were printed.
C5_Witness ==
    /\ Returned
    /\ NumCols = 1
    /\ \E r \in 1..Len(rows) : Len(rows[r]) = 2 /\ rows[r][1] # rows[r][2]
    /\ \E r \in 1..Len(rows) : Len(rows[r]) = 0

\* A piece of a line is a space, the text inside the escape sequences of its
\* color (bare without a color), spaces, and a space.
WrapsOnlyText(piece, text, color) ==
    \E n \in 0..Len(piece) :
        piece = <<" ">> \o MapOrColored(text, color) \o Repeat(" ", n) \o <<" ">>

\* C6: the widths and the border lines are those of the raw texts whatever
\* the colors; the header color wraps the header texts only, the cell color
\* the cell texts only; borders, bars and padding stand outside the escape
\* sequences.
C6_ColorTransparency ==
    Returned =>
        LET L == OutLines
        IN /\ \A k \in 1..NumCols : column_widths[k] = RawMax(k)
           /\ L[1] = PlainBorder
           /\ L[3] = PlainBorder
           /\ L[Len(rows) + 4] = PlainBorder
           /\ \A k \in 1..NumCols :
                 WrapsOnlyText(Pieces(L[2])[k], column_names[k], header_color)
           /\ \A r \in 1..Len(rows) :
                 \A k \in 1..Min(Len(rows[r]), NumCols) :
                    WrapsOnlyText(Pieces(L[3 + r])[k], rows[r][k], cell_color)

\* Both colors set and emitted, on a table with a header and a cell.
C6_Witness ==
    /\ Returned
    /\ colorize
    /\ header_color = Some(Red)
    /\ cell_color # None
    /\ cell_color # header_color
    /\ NumCols >= 1
    /\ \E r \in 1..Len(rows) : Len(rows[r]) >= 1 /\ rows[r][1] # <<>>
    /\ \E p \in 1..Len(out) : out[p] = "ESC"

\* C8 as the spec states it: without columns the border lines are made of
\* '+' only, and the header line and every data line is "||".
C8_ZeroColumnsDoubleBar ==
    (Returned /\ NumCols = 0) =>
        LET L == OutLines
        IN /\ \A n \in {1, 3, Len(rows) + 4} : \A p \in 1..Len(L[n]) : L[n][p] = "+"
           /\ L[2] = <<"|", "|">>
           /\ \A r \in 1..Len(rows) : L[3 + r] = <<"|", "|">>

\* C8, amended: without columns every border line is "++", and the header
\* line and every data line is "|".
C8_ZeroColumns ==
    (Returned /\ NumCols = 0) =>
        LET L == OutLines
        IN /\ Len(L) = Len(rows) + 5
           /\ \A n \in {1, 3, Len(rows) + 4} : L[n] = <<"+", "+">>
           /\ L[2] = <<"|">>
           /\ \A r \in 1..Len(rows) : L[3 + r] = <<"|">>

\* No columns, and a row with cells.
C8_Witness ==
    /\ Returned
    /\ NumCols = 0
    /\ \E r \in 1..Len(rows) : Len(rows[r]) >= 1

\* A step that writes and does not fail.
RenderOk ==
    \/ ComputeWidths
    \/ BuildSeparator
    \/ WriteTopBorder
    \/ WriteHeaderOpen
    \/ WriteHeaderCell
    \/ WriteHeaderEnd
    \/ WriteHeaderBorder
    \/ WriteRowOpen
    \/ WriteRowCell
    \/ SkipRowCell
    \/ WriteRowEnd
    \/ WriteBottomBorder

\* C9: whatever the columns, rows and colors, every index is in range and a
\* next step is possible until the function has returned, when the whole
\* table has been written; the function fails only at a write, and after a
\* failed write nothing more is written.
C9_FailsOnlyOnWrite ==
    /\ [](/\ (pc = "header_cell" /\ i <= Len(column_names)) => i <= Len(column_widths)
          /\ pc = "row_cell" => row \in 1..Len(rows)
          /\ pc \notin {"returned", "panicked"} => ENABLED RenderOk
          /\ Returned => /\ Len(OutLines) = Len(rows) + 5
                         /\ exit_code = None
          /\ pc = "panicked" => ~ENABLED Render)
    /\ [][/\ pc' = "panicked" => (pc \in WritePcs /\ out' = out)
          /\ pc = "panicked" => (pc' = "panicked" /\ out' = out)
          /\ IsPrefix(out, out')]_vars

\* A write has failed after part of the table was written.
C9_Witness ==
    /\ pc = "panicked"
    /\ out # <<>>
    /\ Len(OutLines) >= 3
    /\ \E r \in 1..Len(rows) : Len(rows[r]) # NumCols

(***************************************************************************)
(* Properties of main (Spec).                                              *)
(***************************************************************************)
\* -c is missing, or is not the first argument, or has no value after it.
NoColumnsGiven(a) ==
    \/ ~(\E p \in 2..Len(a) : a[p] = DashC)
    \/ (Len(a) >= 2 /\ a[2] # DashC)
    \/ Len(a) = 2

\* The usage error: the usage message on standard error and status 1,
\* standard input not read, nothing on standard output.
UsageErrorHandled ==
    NoColumnsGiven(args) =>
        /\ pc \in {"main", "exited"}
        /\ pc = "main" => (ENABLED Main_Usage /\ ~ENABLED Main_ParseArgs)
        /\ pc = "exited" => (exit_code = Some(1) /\ err = Usage)
        /\ ~stdin_read
        /\ out = <<>>

\* The whole of standard input read and the whole table written.
TableRendered ==
    /\ stdin_read
    /\ input = stdin
    /\ column_names = Split(args[3], ",")
    /\ Len(OutLines) = Len(rows) + 5
    /\ OutLines[Len(rows) + 5] = <<>>

\* C7 as the spec states it: the usage error; otherwise the program reads
\* standard input, renders the table and exits with status 0.
C7_ExitsZeroOtherwise ==
    /\ UsageErrorHandled
    /\ (~NoColumnsGiven(args) /\ pc \in {"exited", "panicked"}) =>
          (exit_code = Some(0) /\ TableRendered)

\* C7, amended: the usage error; otherwise the program reads standard input,
\* renders the table and exits with status 0, unless reading standard input
\* or a write to standard output fails, which ends it by a panic with
\* another status and without the usage message.
C7_UsageError ==
    /\ UsageErrorHandled
    /\ ~NoColumnsGiven(args) =>
          /\ err = ""
          /\ pc = "main" => (ENABLED Main_ParseArgs /\ ~ENABLED Main_Usage)
          /\ pc = "exited" => (exit_code = Some(0) /\ TableRendered)
          /\ pc = "panicked" => exit_code = Some(PanicCode)
          /\ pc \notin {"exited", "panicked"} => exit_code = None

\* The usage error with -c among the arguments, but not the first.
C7_Witness ==
    /\ pc = "exited"
    /\ exit_code = Some(1)
    /\ Len(args) = 4
    /\ args[3] = DashC

\* Where the records of standard input start: a character that is no
\* whitespace, first or after whitespace.
RecordStarts ==
    {p \in 1..Len(stdin) :
        /\ ~IsWhitespace(stdin[p])
        /\ (p = 1 \/ IsWhitespace(stdin[p - 1]))}

\* The k-th record: from its start to the last character before whitespace.
Record(k) ==
    LET s == CHOOSE p \in RecordStarts :
                 Cardinality({q \in RecordStarts : q < p}) = k - 1
        e == SetMax({q \in s..Len(stdin) :
                        \A t \in s..q : ~IsWhitespace(stdin[t])})
    IN SubSeq(stdin, s, e)

Commas(s) == Cardinality({p \in 1..Len(s) : s[p] = ","})

\* C10: one row per record of standard input, in order; the cells of a row
\* are the fields between the commas of its record, one more than commas;
\* no cell begins or ends with whitespace.
C10_InputPreparation ==
    pc \in {"widths", "exited"} /\ stdin_read =>
        /\ Len(rows) = Cardinality(RecordStarts)
        /\ \A k \in 1..Len(rows) :
              /\ Len(rows[k]) = Commas(Record(k)) + 1
              /\ Join(rows[k], <<",">>) = Record(k)
              /\ \A j \in 1..Len(rows[k]) :
                    LET cell == rows[k][j]
                    IN /\ Commas(cell) = 0
                       /\ cell # <<>> =>
                             /\ ~IsWhitespace(cell[1])
                             /\ ~IsWhitespace(cell[Len(cell)])

\* Two records after a blank line, one of them with an empty field.
C10_Witness ==
    /\ pc = "widths"
    /\ stdin # <<>>
    /\ IsWhitespace(stdin[1])
    /\ Len(rows) = 2
    /\ \E k \in 1..2 : Len(rows[k]) = 2 /\ rows[k][2] = <<>>

====
